---- MODULE Spec2Model ----
(***************************************************************************)
(* A model of package zinject (src/zinject.go): an injector maps           *)
(* (reflect.Type, key) pairs to reflect.Values, resolves a request by a    *)
(* direct lookup, then a scan for implementors of an interface type, then  *)
(* its parent, and fills the tagged fields of a struct from those          *)
(* lookups.                                                                *)
(***************************************************************************)
EXTENDS Integers, Sequences, FiniteSets, TLC

(***************************************************************************)
(* Bounds of the model.                                                    *)
(***************************************************************************)
MaxCalls == 2         \* calls made on the wired injectors in one behaviour
MaxInjectCalls == 3   \* the same, in the behaviours that end with Inject
MaxLockCalls == 2     \* the same, made by the threads that lock the injectors
MaxAsCalls == 3       \* the same, in the behaviours that try the descriptors
MaxPtr == 2           \* pointer layers of a descriptor handed to InterfaceOf
MaxGetCalls == 2      \* calls made on the stocked injectors in one behaviour
MaxWalkCalls == 2     \* calls made in the behaviours that follow Get frame by frame
MaxStack == 5         \* nested Get frames the goroutine stack has room for

(***************************************************************************)
(* The universe: injectors, types, keys and values.                        *)
(***************************************************************************)
Injectors == {"i1", "i2", "i3"}
Nil == "nil"                       \* the nil Injector (no parent)

Types == {"string", "Dog", "Cat", "Speaker"}
Keys == {"", "t"}

\* reflect.Type.Kind, as far as the code asks for it
Kind(t) == IF t = "Speaker" THEN "interface" ELSE "concrete"

\* the method set of a type
Methods(t) == IF t = "string" THEN {} ELSE {"Speak"}

\* reflect.Type.Implements: k implements the interface type t
Implements(k, t) == Methods(t) \subseteq Methods(k)

\* reflect.Type.AssignableTo, for the types of the model
AssignableTo(vt, ft) ==
    \/ vt = ft
    \/ Kind(ft) = "interface" /\ Implements(vt, ft)

\* the values a caller hands to Register, each with its dynamic type
Vals ==
    { [typ |-> "string", data |-> 1],
      [typ |-> "Dog", data |-> 1], [typ |-> "Cat", data |-> 1] }

\* the zero reflect.Value
Invalid == [typ |-> "invalid", data |-> 0]

\* what Set is called with: a type of the caller's choice, and a value whose
\* dynamic type is another one, or the zero Value
SetTypes == {"Dog"}
SetVals == {[typ |-> "string", data |-> 2], Invalid}

\* what RegisterAs is called with: a value, checked against nothing, and a
\* descriptor, ptr pointer layers over a base type
AsVals == {[typ |-> "string", data |-> 3]}
PtrTo(n, t) == [ptr |-> n, base |-> t]
AsDescs == {PtrTo(1, "Speaker")}

\* the types Get is asked for
GetTypes == {"Dog", "Speaker"}

\* reflect.Value.IsValid
IsValid(v) == v.typ # "invalid"

\* reflect.TypeOf and reflect.ValueOf of a non-nil interface{} value
TypeOf(v) == v.typ
ValueOf(v) == [typ |-> TypeOf(v), data |-> v.data]

\* the zero value of a struct field of type t
Zero(t) == [typ |-> t, data |-> 0]

(***************************************************************************)
(* The store of one injector: a map from the registered types to a map     *)
(* from keys to reflect.Values. A Go map read of a missing key yields the  *)
(* zero value.                                                             *)
(***************************************************************************)
EmptyMap == [k \in {} |-> Invalid]

Lookup(m, key) == IF key \in DOMAIN m THEN m[key] ELSE Invalid

\* injector.mapOf: the store with an empty inner map added for a typ it
\* does not hold yet; the inner map returned is mapOf(vs, typ)[typ]
mapOf(vs, typ) ==
    IF typ \in DOMAIN vs
    THEN vs
    ELSE [x \in DOMAIN vs \cup {typ} |-> IF x = typ THEN EmptyMap ELSE vs[x]]

\* Put with the key dropped: every value lands in the unkeyed slot
PutIgnoreKey(vs, typ, key, val) ==
    LET s == mapOf(vs, typ)
    IN  [s EXCEPT ![typ] =
            [k \in DOMAIN s[typ] \cup {""} |-> IF k = "" THEN val ELSE s[typ][k]]]

\* Put that keeps a value the pair already holds
PutKeepFirst(vs, typ, key, val) ==
    LET s == mapOf(vs, typ)
    IN  IF key \in DOMAIN s[typ] /\ IsValid(s[typ][key])
        THEN s
        ELSE [s EXCEPT ![typ] =
                [k \in DOMAIN s[typ] \cup {key} |-> IF k = key THEN val ELSE s[typ][k]]]

\* the assignment that leaves the type with the one key it writes
PutDropOthers(vs, typ, key, val) ==
    LET s == mapOf(vs, typ)
    IN  [s EXCEPT ![typ] = [k \in {key} |-> val]]

\* inj.mapOf(typ)[key] = val
Put(vs, typ, key, val) ==
    LET s == mapOf(vs, typ)
    IN  [s EXCEPT ![typ] =
            [k \in DOMAIN s[typ] \cup {key} |-> IF k = key THEN val ELSE s[typ][k]]]

\* InterfaceOf that takes one pointer layer off and no more
InterfaceOfOneLayer(d) ==
    IF d.ptr > 1 \/ Kind(d.base) # "interface" THEN "panic" ELSE d.base

\* InterfaceOf: strips the pointer layers of the descriptor's type; the
\* interface type reached, or "panic"
RECURSIVE InterfaceOf(_)
InterfaceOf(d) ==
    IF d.ptr > 0
    THEN InterfaceOf([d EXCEPT !.ptr = d.ptr - 1])
    ELSE IF Kind(d.base) # "interface" THEN "panic" ELSE d.base

\* Scan with the key ignored: any valid value of an implementing type
ScanAnyKey(vs, t, key) ==
    LET found == { vs[k][q] : <<k, q>> \in
                     { y \in (DOMAIN vs) \X Keys :
                         /\ Implements(y[1], t)
                         /\ IsValid(Lookup(vs[y[1]], y[2])) } }
    IN  IF found = {} THEN {Invalid} ELSE found

\* Scan without the Implements test: any registered type with a valid value
ScanNoImplements(vs, t, key) ==
    LET found == { Lookup(vs[k], key) :
                     k \in { x \in DOMAIN vs : IsValid(Lookup(vs[x], key)) } }
    IN  IF found = {} THEN {Invalid} ELSE found

\* the values the implementors loop of Get may end with: the loop breaks at
\* the first implementing type with a valid value under key, in the map's
\* iteration order, which Go leaves unspecified
Scan(vs, t, key) ==
    LET found == { Lookup(vs[k], key) :
                     k \in { x \in DOMAIN vs :
                               Implements(x, t) /\ IsValid(Lookup(vs[x], key)) } }
    IN  IF found = {} THEN {Invalid} ELSE found

\* GetLocal with the implementors tried before the direct binding
GetLocalScanFirst(vs, t, key) ==
    LET val == Lookup(vs[t], key)
    IN  IF Kind(t) = "interface" /\ Scan(vs, t, key) # {Invalid}
        THEN Scan(vs, t, key)
        ELSE {val}

\* GetLocal with the implementors tried for a type of any kind
GetLocalScanConcrete(vs, t, key) ==
    LET val == Lookup(vs[t], key)
    IN  IF IsValid(val) THEN {val} ELSE Scan(vs, t, key)

\* Get up to the parent lookup, on the store mapOf(t) has left: the values
\* val may hold at line 151
GetLocal(vs, t, key) ==
    LET val == Lookup(vs[t], key)
    IN  IF IsValid(val) THEN {val}
        ELSE IF Kind(t) = "interface" THEN Scan(vs, t, key)
        ELSE {val}

\* a parent lookup that goes to the injector i3, whatever the parent is
DelegateToRoot(par, inj) == IF par[inj] = Nil THEN Nil ELSE "i3"

\* the injector the Get on inj asks when it finds nothing: inj.parent
Delegate(par, inj) == par[inj]

\* Get that asks the parent for its local result only, not for the
\* parent's own Get
GetOneLevel(vals, par, inj, t, key) ==
    LET vals1 == [vals EXCEPT ![inj] = mapOf(vals[inj], t)]
    IN  UNION { IF ~IsValid(val) /\ par[inj] # Nil
                THEN LET vals2 == [vals1 EXCEPT ![par[inj]] = mapOf(vals1[par[inj]], t)]
                     IN  { [val |-> w, values |-> vals2] :
                             w \in GetLocal(vals2[par[inj]], t, key) }
                ELSE {[val |-> val, values |-> vals1]} :
                val \in GetLocal(vals1[inj], t, key) }

\* injector.Get: the possible outcomes, each the value returned with the
\* stores the call leaves. The parent links from inj form no cycle.
RECURSIVE Get(_, _, _, _, _)
Get(vals, par, inj, t, key) ==
    LET vals1 == [vals EXCEPT ![inj] = mapOf(vals[inj], t)]
    IN  UNION { IF ~IsValid(val) /\ Delegate(par, inj) # Nil
                THEN Get(vals1, par, Delegate(par, inj), t, key)
                ELSE {[val |-> val, values |-> vals1]} :
                val \in GetLocal(vals1[inj], t, key) }

(***************************************************************************)
(* Inject: the structs handed to it, their tags, and the walk over the     *)
(* fields.                                                                 *)
(***************************************************************************)
\* a struct field: its type, whether it is exported, and its tag
Field(typ, exported, tag) == [typ |-> typ, exported |-> exported, tag |-> tag]

\* the struct types: TestStruct of zinject_test.go, TestStruct as the older
\* test file declares it (a keyed tag and a bare inject marker), and a
\* struct with an unexported tagged field before a keyed one
StructNames == {"TestStruct", "OldTestStruct", "Wired"}

StructFields(st) ==
    CASE st = "TestStruct" ->
           << Field("string", TRUE, "inject:\"\""),
              Field("Speaker", TRUE, "inject:\"\""),
              Field("string", TRUE, "") >>
      [] st = "OldTestStruct" ->
           << Field("string", TRUE, "inject:\"t\""),
              Field("Speaker", TRUE, "inject"),
              Field("string", TRUE, "") >>
      [] st = "Wired" ->
           << Field("Dog", TRUE, "inject:\"\""),
              Field("string", FALSE, "inject:\"\""),
              Field("Speaker", TRUE, "inject:\"t\"") >>
      [] OTHER -> << >>

\* what Inject is called with: a struct or a string, by pointer or by value
InjectArgs == [ptr : BOOLEAN, st : StructNames \cup {"string"}]

\* the fields of a new struct value
ZeroFields(st) == [i \in 1..Len(StructFields(st)) |-> Zero(StructFields(st)[i].typ)]

\* reflect.StructTag.Lookup("inject"): the value of the inject key of a tag
\* in the conventional key:"value" form; a tag that is not in that form
\* (the bare word inject) holds no key
TagLookup(tag) ==
    CASE tag = "inject:\"\"" -> [found |-> TRUE, key |-> ""]
      [] tag = "inject:\"t\"" -> [found |-> TRUE, key |-> "t"]
      [] OTHER -> [found |-> FALSE, key |-> ""]

\* reflect.Value.CanSet of a field: the struct is addressable (reached
\* through a pointer) and the field is exported
CanSet(arg, sf) == arg.ptr /\ sf.exported

\* the loop of Inject from field i on, with the fields fs set so far: the
\* possible outcomes, each the error returned ("nil", "notfound" with the
\* type named, or "panic" when reflect.Value.Set rejects the value), the
\* fields and the stores it leaves
RECURSIVE InjectFrom(_, _, _, _, _, _)
InjectFrom(vals, par, inj, arg, fs, i) ==
    IF i > Len(StructFields(arg.st))
    THEN {[err |-> "nil", errtyp |-> "none", fields |-> fs, values |-> vals]}
    ELSE LET sf == StructFields(arg.st)[i]
             tg == TagLookup(sf.tag)
         IN  IF ~CanSet(arg, sf) THEN InjectFrom(vals, par, inj, arg, fs, i + 1)
             ELSE IF ~tg.found THEN InjectFrom(vals, par, inj, arg, fs, i + 1)
             ELSE UNION {
                    IF ~IsValid(o.val)
                    THEN {[err |-> "notfound", errtyp |-> sf.typ, fields |-> fs,
                           values |-> o.values]}
                    ELSE IF ~AssignableTo(o.val.typ, sf.typ)
                    THEN {[err |-> "panic", errtyp |-> "none", fields |-> fs,
                           values |-> o.values]}
                    ELSE InjectFrom(o.values, par, inj, arg,
                                    [fs EXCEPT ![i] = o.val], i + 1) :
                    o \in Get(vals, par, inj, sf.typ, tg.key) }

\* injector.Inject: a value that is no struct is left alone
Inject(vals, par, inj, arg) ==
    IF arg.st \notin StructNames
    THEN {[err |-> "nil", errtyp |-> "none", fields |-> << >>, values |-> vals]}
    ELSE InjectFrom(vals, par, inj, arg, ZeroFields(arg.st), 1)

\* the injectors on the parent chain of inj, inj included
RECURSIVE Chain(_, _, _)
Chain(par, inj, seen) ==
    IF inj = Nil \/ inj \in seen THEN seen
    ELSE Chain(par, par[inj], seen \cup {inj})

\* the parent links from inj run into a cycle
RECURSIVE Cyclic(_, _, _)
Cyclic(par, inj, seen) ==
    IF inj = Nil THEN FALSE
    ELSE IF inj \in seen THEN TRUE
    ELSE Cyclic(par, par[inj], seen \cup {inj})

(***************************************************************************)
(* State.                                                                  *)
(***************************************************************************)
VARIABLES
    values,   \* values[i]: the store of injector i (injector.values)
    parent,   \* parent[i]: injector.parent, or Nil
    last,     \* the last call made and what it returned
    ncalls,   \* calls made so far
    thr,      \* thr[th]: where thread th is in the call it makes under locks
    walk      \* the Get call followed frame by frame: its stack of injectors

vars == <<values, parent, last, ncalls, thr, walk>>

Threads == {"a", "b"}

\* the value the store vs holds for (typ, key): the zero Value if none
Direct(vs, typ, key) == IF typ \in DOMAIN vs THEN Lookup(vs[typ], key) ELSE Invalid

\* the parent links the application has set up with SetParent on its new
\* injectors: none, one link, a chain of three, two children of one parent
\* (every acyclic shape three injectors can take, up to their names)
Wirings ==
    { [i \in Injectors |-> Nil],
      [i \in Injectors |-> IF i = "i1" THEN "i2" ELSE Nil],
      [i \in Injectors |-> IF i = "i1" THEN "i2" ELSE IF i = "i2" THEN "i3" ELSE Nil],
      [i \in Injectors |-> IF i = "i3" THEN Nil ELSE "i3"] }

\* a call as last records it: its arguments, for a write the value the
\* (typ, key) pair held before it (old), for Get the value returned (ret),
\* for Inject the struct handed over (arg) and its fields afterwards, and
\* how the call ended (err, errtyp); for RegisterAs and InterfaceOf the
\* descriptor handed over (desc); for SetParent the parent handed over (par)
\* and the parent the injector had (waspar)
NoCall ==
    [op |-> "none", inj |-> Nil, typ |-> "none", key |-> "", val |-> Invalid,
     old |-> Invalid, ret |-> Invalid, err |-> "nil", errtyp |-> "none",
     arg |-> [ptr |-> FALSE, st |-> "none"], fields |-> << >>,
     desc |-> PtrTo(0, "none"), par |-> Nil, waspar |-> Nil]

Call(op, inj, typ, key, val) ==
    [NoCall EXCEPT !.op = op, !.inj = inj, !.typ = typ, !.key = key, !.val = val]

Write(op, inj, typ, key, val) ==
    [Call(op, inj, typ, key, val) EXCEPT !.old = Direct(values[inj], typ, key)]

\* the call is recorded in last when the history is kept (h)
Log(h, c) == last' = IF h THEN c ELSE last

\* a call a thread makes, and its arguments
Req(op, inj, typ, key, val) ==
    [op |-> op, inj |-> inj, typ |-> typ, key |-> key, val |-> val]

\* a thread between two calls: it holds no lock and is in no store
Idle ==
    [pc |-> "idle", chain |-> FALSE, held |-> {}, cur |-> Nil, mode |-> "none",
     call |-> Req("none", Nil, "none", "", Invalid)]

\* no Get call is followed frame by frame
NoWalk == [pc |-> "idle", stack |-> << >>, typ |-> "none", key |-> "", ret |-> Invalid]

\* one more call, of at most max, by an application that makes its calls
\* one after the other
Count(max) == ncalls < max /\ ncalls' = ncalls + 1 /\ UNCHANGED <<thr, walk>>

\* New for each injector, then the SetParent calls of the wiring
Init ==
    /\ values = [i \in Injectors |-> [t \in {} |-> EmptyMap]]
    /\ parent \in Wirings
    /\ last = NoCall
    /\ ncalls = 0
    /\ thr = [th \in Threads |-> Idle]
    /\ walk = NoWalk

Register(inj, val, key) ==
    /\ values' = [values EXCEPT ![inj] = Put(values[inj], TypeOf(val), key, ValueOf(val))]
    /\ UNCHANGED parent

\* RegisterAs with a descriptor InterfaceOf accepts; with any other it
\* panics before the store is touched
RegisterAs(inj, val, key, ifacePtr) ==
    /\ values' = IF InterfaceOf(ifacePtr) = "panic"
                 THEN values
                 ELSE [values EXCEPT ![inj] =
                         Put(values[inj], InterfaceOf(ifacePtr), key, ValueOf(val))]
    /\ UNCHANGED parent

Set(inj, typ, key, val) ==
    /\ values' = [values EXCEPT ![inj] = Put(values[inj], typ, key, val)]
    /\ UNCHANGED parent

\* SetParent that keeps the parent an injector already has
SetParentOnce(inj, p) ==
    /\ ~Cyclic([parent EXCEPT ![inj] = p], inj, {})
    /\ parent' = IF parent[inj] # Nil THEN parent ELSE [parent EXCEPT ![inj] = p]
    /\ UNCHANGED values

\* SetParent, by a caller who builds no cycle of parents
SetParent(inj, p) ==
    /\ ~Cyclic([parent EXCEPT ![inj] = p], inj, {})
    /\ parent' = [parent EXCEPT ![inj] = p]
    /\ UNCHANGED values

\* a Get call that takes the binding it was asked for out of the store
DoGetTaking(inj, t, key, o) ==
    /\ o \in Get(values, parent, inj, t, key)
    /\ values' = [o.values EXCEPT ![inj] = [@ EXCEPT ![t] = EmptyMap]]
    /\ UNCHANGED parent

\* a Get call that ends with the outcome o
DoGet(inj, t, key, o) ==
    /\ o \in Get(values, parent, inj, t, key)
    /\ values' = o.values
    /\ UNCHANGED parent

\* an Inject call that ends with the outcome o
DoInject(inj, arg, o) ==
    /\ o \in Inject(values, parent, inj, arg)
    /\ values' = o.values
    /\ UNCHANGED parent

\* the record of a RegisterAs call
AsCall(inj, val, key, d) ==
    IF InterfaceOf(d) = "panic"
    THEN [Call("RegisterAs", inj, "none", key, ValueOf(val)) EXCEPT
            !.err = "panic", !.desc = d]
    ELSE [Write("RegisterAs", inj, InterfaceOf(d), key, ValueOf(val)) EXCEPT !.desc = d]

\* one call on an injector
Step(h) ==
    \/ \E inj \in Injectors, val \in Vals, key \in Keys :
          /\ Count(MaxCalls)
          /\ Register(inj, val, key)
          /\ Log(h, Write("Register", inj, TypeOf(val), key, ValueOf(val)))
    \/ \E inj \in Injectors, val \in AsVals, key \in Keys, d \in AsDescs :
          /\ Count(MaxCalls)
          /\ RegisterAs(inj, val, key, d)
          /\ Log(h, AsCall(inj, val, key, d))
    \/ \E inj \in Injectors, typ \in SetTypes, key \in Keys, val \in SetVals :
          /\ Count(MaxCalls)
          /\ Set(inj, typ, key, val)
          /\ Log(h, Write("Set", inj, typ, key, val))
    \/ \E inj \in Injectors, p \in Injectors \cup {Nil} :
          /\ Count(MaxCalls)
          /\ SetParent(inj, p)
          /\ Log(h, [Call("SetParent", inj, "none", "", Invalid) EXCEPT
                        !.par = p, !.waspar = parent[inj]])
    \/ \E inj \in Injectors, t \in GetTypes, key \in Keys :
          /\ Count(MaxCalls)
          /\ \E o \in Get(values, parent, inj, t, key) :
                /\ DoGet(inj, t, key, o)
                /\ Log(h, [Call("Get", inj, t, key, Invalid) EXCEPT !.ret = o.val])

\* the calls, with the last one recorded
Next == Step(TRUE)

\* the same calls with no record kept: the states are the stores and the
\* parent links alone
NextStore == Step(FALSE)

Spec == Init /\ [][Next]_vars

SpecStore == Init /\ [][NextStore]_vars

\* the injectors of the Inject behaviours: i1, alone or with the parent i2
InjectWirings == { w \in Wirings : w["i2"] = Nil /\ w["i3"] = Nil }
InjectOn == {"i1", "i2"}

InitInject ==
    /\ values = [i \in Injectors |-> [t \in {} |-> EmptyMap]]
    /\ parent \in InjectWirings
    /\ last = NoCall
    /\ ncalls = 0
    /\ thr = [th \in Threads |-> Idle]
    /\ walk = NoWalk

\* the application registers its values, then has i1 fill a struct
NextInject ==
    \/ \E inj \in InjectOn, val \in Vals, key \in Keys :
          /\ Count(MaxInjectCalls)
          /\ Register(inj, val, key)
          /\ Log(TRUE, Write("Register", inj, TypeOf(val), key, ValueOf(val)))
    \/ \E inj \in InjectOn, val \in AsVals, key \in Keys, d \in AsDescs :
          /\ Count(MaxInjectCalls)
          /\ RegisterAs(inj, val, key, d)
          /\ Log(TRUE, AsCall(inj, val, key, d))
    \/ \E inj \in InjectOn, typ \in SetTypes, key \in Keys, val \in SetVals :
          /\ Count(MaxInjectCalls)
          /\ Set(inj, typ, key, val)
          /\ Log(TRUE, Write("Set", inj, typ, key, val))
    \/ \E arg \in InjectArgs :
          /\ Count(MaxInjectCalls)
          /\ \E o \in Inject(values, parent, "i1", arg) :
                /\ DoInject("i1", arg, o)
                /\ Log(TRUE, [Call("Inject", "i1", "none", "", Invalid) EXCEPT
                                !.arg = arg, !.fields = o.fields,
                                !.err = o.err, !.errtyp = o.errtyp])

SpecInject == InitInject /\ [][NextInject]_vars

(***************************************************************************)
(* The descriptors: InterfaceOf and RegisterAs called with descriptors of  *)
(* every shape, on an injector that also holds registered values.          *)
(***************************************************************************)
\* a descriptor is a value whose type is a base type under some layers of
\* pointers; a value has no interface type of its own, so an interface
\* type is met under one layer at least
Descs ==
    { d \in [ptr : 0..MaxPtr, base : Types] :
        d.ptr = 0 => Kind(d.base) # "interface" }

\* the record of an InterfaceOf call
OfCall(d) ==
    IF InterfaceOf(d) = "panic"
    THEN [Call("InterfaceOf", Nil, "none", "", Invalid) EXCEPT
            !.err = "panic", !.desc = d]
    ELSE [Call("InterfaceOf", Nil, InterfaceOf(d), "", Invalid) EXCEPT !.desc = d]

NextAs ==
    \/ \E val \in Vals, key \in Keys :
          /\ Count(MaxAsCalls)
          /\ Register("i1", val, key)
          /\ Log(TRUE, Write("Register", "i1", TypeOf(val), key, ValueOf(val)))
    \/ \E val \in AsVals, key \in Keys, d \in Descs :
          /\ Count(MaxAsCalls)
          /\ RegisterAs("i1", val, key, d)
          /\ Log(TRUE, AsCall("i1", val, key, d))
    \/ \E d \in Descs :
          /\ Count(MaxAsCalls)
          /\ Log(TRUE, OfCall(d))
          /\ UNCHANGED <<values, parent>>

SpecAs == InitInject /\ [][NextAs]_vars

(***************************************************************************)
(* Gets on injectors that hold values already: the application has         *)
(* registered a Dog, a Cat, both or nothing on each injector before the    *)
(* behaviour starts.                                                       *)
(***************************************************************************)
\* the store of a new injector after Register of a value of each type of S
\* under the key ""
Shelf(S) ==
    LET e == [t \in {} |-> EmptyMap]
        a == IF "Dog" \in S THEN Put(e, "Dog", "", [typ |-> "Dog", data |-> 1]) ELSE e
    IN  IF "Cat" \in S THEN Put(a, "Cat", "", [typ |-> "Cat", data |-> 1]) ELSE a

Stocks ==
    { [i \in Injectors |-> Shelf(IF i = "i3" THEN S3 ELSE f[i])] :
        f \in [{"i1", "i2"} -> SUBSET {"Dog", "Cat"}], S3 \in {{}, {"Dog"}} }

InitGets ==
    /\ values \in Stocks
    /\ parent \in Wirings
    /\ last = NoCall
    /\ ncalls = 0
    /\ thr = [th \in Threads |-> Idle]
    /\ walk = NoWalk

\* Gets, one after the other or with a Register in between
NextGets ==
    \/ \E inj \in Injectors, t \in GetTypes :
          /\ Count(MaxGetCalls)
          /\ \E o \in Get(values, parent, inj, t, "") :
                /\ DoGet(inj, t, "", o)
                /\ Log(TRUE, [Call("Get", inj, t, "", Invalid) EXCEPT !.ret = o.val])
    \/ \E inj \in Injectors :
          /\ Count(MaxGetCalls)
          /\ Register(inj, [typ |-> "Cat", data |-> 1], "")
          /\ Log(TRUE, Write("Register", inj, "Cat", "", [typ |-> "Cat", data |-> 1]))

SpecGets == InitGets /\ [][NextGets]_vars

(***************************************************************************)
(* Get frame by frame. A Get that finds nothing in its injector calls Get  *)
(* on the parent, a frame deeper on the goroutine stack; Go keeps every    *)
(* frame until the innermost returns, and the runtime ends the process     *)
(* when the stack outgrows its limit. The parent links are any SetParent   *)
(* can build, cycles included.                                             *)
(***************************************************************************)
\* parent links with a cycle: an injector that is its own parent, two that
\* are each other's, a ring of three, and chains that lead into a cycle
Rings ==
    { [i \in Injectors |-> IF i = "i1" THEN "i1" ELSE Nil],
      [i \in Injectors |-> IF i = "i1" THEN "i2" ELSE IF i = "i2" THEN "i1" ELSE Nil],
      [i \in Injectors |-> IF i = "i1" THEN "i2" ELSE IF i = "i2" THEN "i3" ELSE "i1"],
      [i \in Injectors |-> IF i = "i1" THEN "i2" ELSE IF i = "i2" THEN "i2" ELSE Nil],
      [i \in Injectors |-> IF i = "i1" THEN "i2" ELSE IF i = "i2" THEN "i3" ELSE "i2"] }

InitWalk ==
    /\ values = [i \in Injectors |-> [t \in {} |-> EmptyMap]]
    /\ parent \in Wirings \cup Rings
    /\ last = NoCall
    /\ ncalls = 0
    /\ thr = [th \in Threads |-> Idle]
    /\ walk = NoWalk

\* the process is alive and no Get is under way
Ready == walk.pc \in {"idle", "returned"}

\* a Register call between two Gets
WalkRegister(inj, val) ==
    /\ Ready
    /\ ncalls < MaxWalkCalls
    /\ ncalls' = ncalls + 1
    /\ Register(inj, val, "")
    /\ walk' = NoWalk
    /\ UNCHANGED <<last, thr>>

\* Get(t, "") is called on inj: its first frame
StartGet(inj, t) ==
    /\ Ready
    /\ ncalls < MaxWalkCalls
    /\ ncalls' = ncalls + 1
    /\ walk' = [pc |-> "running", stack |-> <<inj>>, typ |-> t, key |-> "", ret |-> Invalid]
    /\ UNCHANGED <<values, parent, last, thr>>

\* a frame that finds nothing and has a nil parent comes back to its own
\* injector
FrameSelfParent ==
    LET cur == walk.stack[Len(walk.stack)]
        vs == mapOf(values[cur], walk.typ)
    IN  /\ walk.pc = "running"
        /\ values' = [values EXCEPT ![cur] = vs]
        /\ \E val \in GetLocal(vs, walk.typ, walk.key) :
              walk' = IF IsValid(val)
                      THEN [walk EXCEPT !.pc = "returned", !.ret = val]
                      ELSE IF Len(walk.stack) = MaxStack
                      THEN [walk EXCEPT !.pc = "overflow"]
                      ELSE [walk EXCEPT !.stack =
                              Append(@, IF Delegate(parent, cur) = Nil THEN cur
                                        ELSE Delegate(parent, cur))]
        /\ UNCHANGED <<parent, last, ncalls, thr>>

\* the innermost frame runs: it looks into its injector and returns what it
\* found, each outer frame returning the same, or calls Get on the parent,
\* for which the stack may have no room left
Frame ==
    LET cur == walk.stack[Len(walk.stack)]
        vs == mapOf(values[cur], walk.typ)
    IN  /\ walk.pc = "running"
        /\ values' = [values EXCEPT ![cur] = vs]
        /\ \E val \in GetLocal(vs, walk.typ, walk.key) :
              walk' = IF IsValid(val) \/ Delegate(parent, cur) = Nil
                      THEN [walk EXCEPT !.pc = "returned", !.ret = val]
                      ELSE IF Len(walk.stack) = MaxStack
                      THEN [walk EXCEPT !.pc = "overflow"]
                      ELSE [walk EXCEPT !.stack = Append(@, Delegate(parent, cur))]
        /\ UNCHANGED <<parent, last, ncalls, thr>>

NextWalk ==
    \/ \E inj \in Injectors, val \in Vals : WalkRegister(inj, val)
    \/ \E inj \in Injectors, t \in GetTypes : StartGet(inj, t)
    \/ Frame

\* a frame that can run does run
SpecWalk == InitWalk /\ [][NextWalk]_vars /\ WF_vars(Frame)

(***************************************************************************)
(* Threads that call the injectors under locks the application adds, one   *)
(* lock per injector. A call is in the store of one injector at a time:    *)
(* a write in the store of the injector it is made on, a Get in the store  *)
(* of that injector and then, frame by frame, of the parents it asks.      *)
(***************************************************************************)
\* the calls the threads make
LockCalls ==
    UNION { { Req("Register", i, "Dog", "", [typ |-> "Dog", data |-> 1]),
              Req("RegisterAs", i, "Speaker", "", [typ |-> "string", data |-> 3]),
              Req("Set", i, "Dog", "", Invalid),
              Req("Get", i, "Dog", "", Invalid),
              Req("Get", i, "Speaker", "", Invalid) } : i \in Injectors }

\* the locks a call on inj is made under: the lock of inj or, with chain,
\* the locks of inj and of every injector its parent links lead to
LocksFor(inj, chain) == IF chain THEN Chain(parent, inj, {}) ELSE {inj}

\* how the frame of call c touches the store vs: Register, RegisterAs and
\* Set assign to a map; Get reads, and mapOf assigns when typ is new
AccessMode(c, vs) ==
    IF c.op # "Get" \/ c.typ \notin DOMAIN vs THEN "w" ELSE "r"

\* the Go runtime has ended the process
Fatal == \E th \in Threads : thr[th].pc = "fatal"

\* thread th is in a store another thread is in, and one of them writes
Racing(th) ==
    \E ot \in Threads \ {th} :
        /\ thr[th].pc = "access" /\ thr[ot].pc = "access"
        /\ thr[th].cur = thr[ot].cur
        /\ "w" \in {thr[th].mode, thr[ot].mode}

Race == \E th \in Threads : Racing(th)

InitLock ==
    /\ values = [i \in Injectors |-> [t \in {} |-> EmptyMap]]
    /\ parent \in Wirings
    /\ last = NoCall
    /\ ncalls = 0
    /\ \E chain \in BOOLEAN : thr = [th \in Threads |-> [Idle EXCEPT !.chain = chain]]
    /\ walk = NoWalk

\* th takes the locks of its next call, all of them free
Lock(th, c) ==
    /\ ~Fatal
    /\ thr[th].pc = "idle"
    /\ ncalls < MaxLockCalls
    /\ \A ot \in Threads \ {th} : thr[ot].held \cap LocksFor(c.inj, thr[th].chain) = {}
    /\ thr' = [thr EXCEPT ![th] = [@ EXCEPT !.pc = "held", !.call = c, !.cur = c.inj,
                                            !.held = LocksFor(c.inj, thr[th].chain)]]
    /\ ncalls' = ncalls + 1
    /\ UNCHANGED <<values, parent, last, walk>>

\* the call of th enters the store of the injector it is at
Enter(th) ==
    /\ ~Fatal
    /\ thr[th].pc = "held"
    /\ thr' = [thr EXCEPT ![th] = [@ EXCEPT !.pc = "access",
                                            !.mode = AccessMode(thr[th].call,
                                                                values[thr[th].cur])]]
    /\ UNCHANGED <<values, parent, last, ncalls, walk>>

\* a write is done: the value is stored, the call returns, th unlocks
LeaveWrite(th) ==
    LET c == thr[th].call
    IN  /\ ~Fatal
        /\ thr[th].pc = "access"
        /\ c.op # "Get"
        /\ values' = [values EXCEPT ![c.inj] = Put(values[c.inj], c.typ, c.key, c.val)]
        /\ thr' = [thr EXCEPT ![th] = [Idle EXCEPT !.chain = thr[th].chain]]
        /\ UNCHANGED <<parent, last, ncalls, walk>>

\* a frame of Get is done with its store: it returns what it found, and th
\* unlocks, or it calls Get on the parent
LeaveGet(th) ==
    LET c == thr[th].call
        cur == thr[th].cur
        vs == mapOf(values[cur], c.typ)
    IN  /\ ~Fatal
        /\ thr[th].pc = "access"
        /\ c.op = "Get"
        /\ values' = [values EXCEPT ![cur] = vs]
        /\ \E val \in GetLocal(vs, c.typ, c.key) :
              thr' = [thr EXCEPT ![th] =
                        IF ~IsValid(val) /\ Delegate(parent, cur) # Nil
                        THEN [@ EXCEPT !.pc = "held", !.cur = Delegate(parent, cur),
                                       !.mode = "none"]
                        ELSE [Idle EXCEPT !.chain = thr[th].chain]]
        /\ UNCHANGED <<parent, last, ncalls, walk>>

\* two threads in one map, one of them writing: the runtime may end the
\* process (fatal error: concurrent map writes, or map read and map write)
Crash(th) ==
    /\ ~Fatal
    /\ Racing(th)
    /\ thr' = [thr EXCEPT ![th] = [@ EXCEPT !.pc = "fatal"]]
    /\ UNCHANGED <<values, parent, last, ncalls, walk>>

NextLock ==
    \/ \E th \in Threads, c \in LockCalls : Lock(th, c)
    \/ \E th \in Threads : Enter(th)
    \/ \E th \in Threads : LeaveWrite(th)
    \/ \E th \in Threads : LeaveGet(th)
    \/ \E th \in Threads : Crash(th)

SpecLock == InitLock /\ [][NextLock]_vars

(***************************************************************************)
(* Properties. A value is a valid reflect.Value; the zero Value is the     *)
(* invalid marker Get returns for "not found".                             *)
(***************************************************************************)

\* the values a Get(t, key) on inj may return in the current state
GetVals(inj, t, key) == { o.val : o \in Get(values, parent, inj, t, key) }

\* the valid values inj holds under key for the types that implement t
Candidates(inj, t, key) ==
    { Direct(values[inj], k, key) :
        k \in { x \in DOMAIN values[inj] :
                  Implements(x, t) /\ IsValid(Direct(values[inj], x, key)) } }

\* inj resolves (t, key) by itself: a direct binding or, for an interface
\* type, an implementor bound under key
LocalHit(inj, t, key) ==
    \/ IsValid(Direct(values[inj], t, key))
    \/ Kind(t) = "interface" /\ Candidates(inj, t, key) # {}

\* C1: a Get(T, k) issued right after Set(T, k, v), or after Register(v, k)
\* with T the dynamic type of v, returns exactly v, whatever the injector
\* and its parent chain hold.
C1_GetAfterWrite ==
    (last.op \in {"Set", "Register"} /\ IsValid(last.val))
        => GetVals(last.inj, last.typ, last.key) = {last.val}

\* the write went to an injector whose parent holds another value for the pair
C1_Witness ==
    /\ last.op = "Register"
    /\ parent[last.inj] # Nil
    /\ IsValid(Direct(values[parent[last.inj]], last.typ, last.key))
    /\ Direct(values[parent[last.inj]], last.typ, last.key) # last.val
    /\ GetVals(last.inj, last.typ, last.key) = {last.val}

\* what the fallback order of C2 allows Get(t, key) on inj to return
RECURSIVE Fallback(_, _, _)
Fallback(inj, t, key) ==
    IF IsValid(Direct(values[inj], t, key)) THEN {Direct(values[inj], t, key)}
    ELSE IF Kind(t) = "interface" /\ Candidates(inj, t, key) # {}
         THEN Candidates(inj, t, key)
    ELSE IF parent[inj] # Nil THEN Fallback(parent[inj], t, key)
    ELSE {Invalid}

\* C2: Get follows the fallback order: the direct binding if it is valid;
\* otherwise, for an interface type, one of the valid bindings under the key
\* of the registered types that implement it; otherwise what the parent's
\* Get returns; otherwise the invalid marker.
C2_FallbackOrder ==
    \A inj \in Injectors, t \in Types, key \in Keys :
        GetVals(inj, t, key) = Fallback(inj, t, key)

\* a local implementor shadows the direct binding the parent holds
C2_Witness ==
    \E inj \in Injectors, key \in Keys :
        /\ ~IsValid(Direct(values[inj], "Speaker", key))
        /\ Candidates(inj, "Speaker", key) # {}
        /\ parent[inj] # Nil
        /\ IsValid(Direct(values[parent[inj]], "Speaker", key))
        /\ Direct(values[parent[inj]], "Speaker", key) \notin GetVals(inj, "Speaker", key)

\* C3 as stated: with no direct binding for the interface type C under k,
\* Get(C, k) returns the value bound under k to D, for every registered
\* concrete type D that implements C and has a value under k.
C3_Original ==
    \A inj \in Injectors, c \in Types, d \in Types, key \in Keys :
        ( /\ Kind(c) = "interface" /\ Kind(d) = "concrete"
          /\ ~IsValid(Direct(values[inj], c, key))
          /\ Implements(d, c)
          /\ IsValid(Direct(values[inj], d, key)) )
        => GetVals(inj, c, key) = {Direct(values[inj], d, key)}

\* C3 as amended: with no direct binding for the interface type C under k
\* and a registered type D that implements C holding a value under k,
\* Get(C, k) returns a value bound under k to a registered type that
\* implements C; which one is unspecified when several do, and it is the
\* value of D when D is the only one. A value bound under another key is
\* never returned for k.
C3_CapabilityFallback ==
    \A inj \in Injectors, c \in Types, d \in Types, key \in Keys :
        ( /\ Kind(c) = "interface" /\ Kind(d) = "concrete"
          /\ ~IsValid(Direct(values[inj], c, key))
          /\ Implements(d, c)
          /\ IsValid(Direct(values[inj], d, key)) )
        => /\ GetVals(inj, c, key) = Candidates(inj, c, key)
           /\ Candidates(inj, c, key) = {Direct(values[inj], d, key)}
                 => GetVals(inj, c, key) = {Direct(values[inj], d, key)}

\* one implementor is bound under the key asked for, another under the
\* other key only
C3_Witness ==
    \E inj \in Injectors, key \in Keys, other \in Keys :
        /\ other # key
        /\ ~IsValid(Direct(values[inj], "Speaker", key))
        /\ IsValid(Direct(values[inj], "Dog", key))
        /\ IsValid(Direct(values[inj], "Cat", other))
        /\ ~IsValid(Direct(values[inj], "Cat", key))
        /\ GetVals(inj, "Speaker", key) = {Direct(values[inj], "Dog", key)}

\* C4 as stated: a child with no local binding for (T, k) whose parent
\* holds a binding for (T, k) returns the parent's value.
C4_Original ==
    \A inj \in Injectors, t \in Types, key \in Keys :
        ( /\ parent[inj] # Nil
          /\ ~IsValid(Direct(values[inj], t, key))
          /\ IsValid(Direct(values[parent[inj]], t, key)) )
        => GetVals(inj, t, key) = {Direct(values[parent[inj]], t, key)}

\* C4 as amended: a child that does not resolve (T, k) by itself (no local
\* binding for (T, k) and, for an interface type T, no local type that
\* implements T with a value under k) returns what Get(T, k) on its parent
\* returns: the parent's binding for (T, k) if it holds one, otherwise the
\* parent's own implementor match, otherwise what the parent's parent
\* returns.
C4_ParentDelegation ==
    \A inj \in Injectors, t \in Types, key \in Keys :
        (parent[inj] # Nil /\ ~LocalHit(inj, t, key))
        => /\ GetVals(inj, t, key) = GetVals(parent[inj], t, key)
           /\ IsValid(Direct(values[parent[inj]], t, key))
                 => GetVals(inj, t, key) = {Direct(values[parent[inj]], t, key)}

\* the value comes from the parent's parent, by its implementors scan
C4_Witness ==
    \E inj \in Injectors, key \in Keys :
        /\ parent[inj] # Nil
        /\ parent[parent[inj]] # Nil
        /\ ~LocalHit(inj, "Speaker", key)
        /\ ~LocalHit(parent[inj], "Speaker", key)
        /\ ~IsValid(Direct(values[parent[parent[inj]]], "Speaker", key))
        /\ GetVals(inj, "Speaker", key) = Candidates(parent[parent[inj]], "Speaker", key)
        /\ Invalid \notin GetVals(inj, "Speaker", key)

\* C5: a Get leaves every store and every parent link as it found them.
C5_GetIsPureRead ==
    [][last'.op = "Get" => (values' = values /\ parent' = parent)]_vars

\* nothing on the parent chain of inj resolves (t, key)
RECURSIVE NoCandidate(_, _, _)
NoCandidate(inj, t, key) ==
    /\ ~LocalHit(inj, t, key)
    /\ parent[inj] # Nil => NoCandidate(parent[inj], t, key)

\* C6: when no injector on the parent chain holds a direct binding for
\* (T, k) or, for an interface type T, a type implementing T with a value
\* under k, Get(T, k) returns the invalid marker, for concrete and interface
\* types, with and without a parent.
C6_Absence ==
    \A inj \in Injectors, t \in Types, key \in Keys :
        NoCandidate(inj, t, key) => GetVals(inj, t, key) = {Invalid}

\* an interface type is asked for down a chain that holds only a type that
\* does not implement it, and an implementor under the other key
C6_Witness ==
    \E inj \in Injectors, key \in Keys, other \in Keys :
        /\ parent[inj] # Nil
        /\ other # key
        /\ IsValid(Direct(values[parent[inj]], "string", key))
        /\ IsValid(Direct(values[inj], "Dog", other))
        /\ NoCandidate(inj, "Speaker", key)
        /\ GetVals(inj, "Speaker", key) = {Invalid}

\* C7: a Register or Set of v2 under a (type, key) pair that held v1 leaves
\* v2 as the one value of the pair: Get(type, key) returns v2, and v1 is no
\* longer returned for the pair.
C7_Overwrite ==
    (last.op \in {"Register", "Set"} /\ IsValid(last.old))
        => /\ Direct(values[last.inj], last.typ, last.key) = last.val
           /\ IsValid(last.val) => GetVals(last.inj, last.typ, last.key) = {last.val}
           /\ (IsValid(last.val) /\ last.old # last.val)
                 => last.old \notin GetVals(last.inj, last.typ, last.key)

\* a Set has replaced the value a Register had stored
C7_Witness ==
    /\ last.op = "Set"
    /\ IsValid(last.old)
    /\ IsValid(last.val)
    /\ last.old # last.val
    /\ GetVals(last.inj, last.typ, last.key) = {last.val}


(***************************************************************************)
(* Inject. The laws below read the stores before the call (the unprimed    *)
(* variables) and the call's record after it.                              *)
(***************************************************************************)

\* the key an annotation asks for: the discriminator of a keyed annotation,
\* the unkeyed slot for the bare marker
TagKey(tag) == IF tag = "inject:\"t\"" THEN "t" ELSE ""

\* field i of the struct handed over carries an annotation (the bare marker
\* when bare, or a keyed one) and can be set
Wanted(arg, i, bare) ==
    LET sf == StructFields(arg.st)[i]
    IN  /\ CanSet(arg, sf)
        /\ IF bare THEN sf.tag # "" ELSE sf.tag \notin {"", "inject"}

\* what Get returns for field i before the call
FieldVals(inj, arg, i) ==
    GetVals(inj, StructFields(arg.st)[i].typ, TagKey(StructFields(arg.st)[i].tag))

Resolves(inj, arg, i) == Invalid \notin FieldVals(inj, arg, i)

\* every value Get may return for field i can be assigned to it
Fits(inj, arg, i) ==
    \A v \in FieldVals(inj, arg, i) : AssignableTo(v.typ, StructFields(arg.st)[i].typ)

\* the annotated, settable fields before field i resolve to values that fit
ReachedBy(inj, arg, i, bare) ==
    \A j \in 1..(i - 1) :
        Wanted(arg, j, bare) => (Resolves(inj, arg, j) /\ Fits(inj, arg, j))

\* the failure law of C9 for a call c, with the bare marker counted as an
\* annotation or not
FailureLaw(c, bare) ==
    \A i \in 1..Len(StructFields(c.arg.st)) :
        ( /\ Wanted(c.arg, i, bare)
          /\ ~Resolves(c.inj, c.arg, i)
          /\ ReachedBy(c.inj, c.arg, i, bare) )
        => /\ c.err = "notfound"
           /\ c.errtyp = StructFields(c.arg.st)[i].typ
           /\ \A j \in 1..(i - 1) :
                 Wanted(c.arg, j, bare) => c.fields[j] \in FieldVals(c.inj, c.arg, j)
           /\ \A j \in i..Len(StructFields(c.arg.st)) :
                 c.fields[j] = Zero(StructFields(c.arg.st)[j].typ)

\* the success law of C10 for a call c
SuccessLaw(c, bare) ==
    ReachedBy(c.inj, c.arg, Len(StructFields(c.arg.st)) + 1, bare)
    => /\ c.err = "nil"
       /\ \A i \in 1..Len(StructFields(c.arg.st)) :
             IF Wanted(c.arg, i, bare)
             THEN c.fields[i] \in FieldVals(c.inj, c.arg, i)
             ELSE c.fields[i] = Zero(StructFields(c.arg.st)[i].typ)

\* C9: when Inject reaches, in declaration order, an annotated settable
\* field for which Get returns the invalid marker, it returns an error that
\* names the field's type; the annotated fields before it hold the values
\* assigned to them and the fields from it on are unchanged. (Stated for
\* values that can be assigned to the fields they resolve.)
C9_InjectFailure ==
    [][(last'.op = "Inject" /\ last'.arg.st \in StructNames)
          => FailureLaw(last', TRUE)]_vars

\* C10: when every annotated settable field resolves, Inject returns nil,
\* a field with the unkeyed marker holds Get(type, ""), a field with a keyed
\* annotation holds Get(type, key), and every other field keeps its zero
\* value. (Stated for values that can be assigned to the fields they
\* resolve.)
C10_InjectSuccess ==
    [][(last'.op = "Inject" /\ last'.arg.st \in StructNames)
          => SuccessLaw(last', TRUE)]_vars

\* the two laws with only the key:"value" tags counted as annotations
InjectLawsOfKeyedTags ==
    [][(last'.op = "Inject" /\ last'.arg.st \in StructNames)
          => (FailureLaw(last', FALSE) /\ SuccessLaw(last', FALSE))]_vars

\* every value Get may return for field i is valid and cannot be assigned
\* to the field
Misfits(inj, arg, i) ==
    \A v \in FieldVals(inj, arg, i) :
        IsValid(v) /\ ~AssignableTo(v.typ, StructFields(arg.st)[i].typ)

\* the mismatch law of C11 for a call c: the call does not end well (it
\* returns an error or panics) and the field keeps its value
MismatchLaw(c, bare) ==
    \A i \in 1..Len(StructFields(c.arg.st)) :
        ( /\ Wanted(c.arg, i, bare)
          /\ Misfits(c.inj, c.arg, i)
          /\ ReachedBy(c.inj, c.arg, i, bare) )
        => /\ c.err # "nil"
           /\ c.fields[i] = Zero(StructFields(c.arg.st)[i].typ)

\* C11: when Inject reaches an annotated settable field for which Get
\* returns a valid value that cannot be assigned to the field's type, the
\* call ends with an error outcome (an error returned, or a panic) and the
\* value is not written into the field.
C11_InjectMismatch ==
    [][(last'.op = "Inject" /\ last'.arg.st \in StructNames)
          => MismatchLaw(last', TRUE)]_vars

\* the mismatch law with only the key:"value" tags counted as annotations,
\* where the error outcome is the panic of reflect.Value.Set
MismatchLawOfKeyedTags ==
    [][(last'.op = "Inject" /\ last'.arg.st \in StructNames)
          => /\ MismatchLaw(last', FALSE)
             /\ \A i \in 1..Len(StructFields(last'.arg.st)) :
                   ( /\ Wanted(last'.arg, i, FALSE)
                     /\ Misfits(last'.inj, last'.arg, i)
                     /\ ReachedBy(last'.inj, last'.arg, i, FALSE) )
                   => last'.err = "panic"]_vars

(***************************************************************************)
(* Parent links.                                                           *)
(***************************************************************************)

\* C13: a SetParent(P2) on an injector R whose parent was P1 changes no
\* binding of any injector, and from then on a Get on R that finds nothing
\* in R returns what Get on P2 returns (the invalid marker when P2 is nil):
\* a binding held by P1 and not on the chain of P2 is no longer returned.
C13_SetParentReplaces ==
    [][\A inj \in Injectors, p \in Injectors \cup {Nil} :
          (last'.op = "SetParent" /\ last'.inj = inj /\ last'.par = p)
          => /\ values' = values
             /\ \A t \in Types, key \in Keys :
                   ~LocalHit(inj, t, key)
                   => GetVals(inj, t, key)' =
                        IF p = Nil THEN {Invalid} ELSE GetVals(p, t, key)']_vars

\* SetParent has replaced the parent P1 of an injector with another
\* injector P2, P1 holds a binding that the injector, which would have
\* returned it before, no longer returns
C13_Witness ==
    /\ last.op = "SetParent"
    /\ last.waspar # Nil /\ last.par # Nil /\ last.par # last.waspar
    /\ parent[last.inj] = last.par
    /\ \E t \in Types, key \in Keys :
          /\ IsValid(Direct(values[last.waspar], t, key))
          /\ ~LocalHit(last.inj, t, key)
          /\ GetVals(last.inj, t, key) = {Invalid}

(***************************************************************************)
(* Soundness.                                                              *)
(***************************************************************************)

\* the type identities a Get for t may take its value from: t, and the
\* types that implement t when t is an interface type
Answers(k, t) == k = t \/ (Kind(t) = "interface" /\ Implements(k, t))

\* v is bound under key, in inj or in an injector up its parent links, to a
\* type that answers for t
BoundFor(inj, t, key, v) ==
    \E j \in Chain(parent, inj, {}) :
        \E k \in DOMAIN values[j] : Answers(k, t) /\ Direct(values[j], k, key) = v

\* C15: every valid value Get(T, k) returns on an injector is bound, at
\* this moment and under the key k itself, in the injector or in one of its
\* ancestors, to T or, when T is an interface type, to a type that
\* implements T; a value stored with Set under another type is not
\* returned for the concrete type T, also when its own type is T.
C15_Soundness ==
    \A inj \in Injectors, t \in Types, key \in Keys :
        \A v \in GetVals(inj, t, key) : IsValid(v) => BoundFor(inj, t, key, v)

\* a string is stored with Set under the type Dog and Get on a child of the
\* injector returns it for Dog and nothing for string
C15_Witness ==
    \E inj \in Injectors, key \in Keys :
        /\ parent[inj] # Nil
        /\ Direct(values[parent[inj]], "Dog", key) = [typ |-> "string", data |-> 2]
        /\ GetVals(inj, "Dog", key) = {[typ |-> "string", data |-> 2]}
        /\ GetVals(inj, "string", key) = {Invalid}

(***************************************************************************)
(* Locality of writes.                                                     *)
(***************************************************************************)

\* the law of C16 for a write on inj to (typ, key) that has just been made
WriteIsLocal(inj, typ, key) ==
    /\ parent' = parent
    /\ \A j \in Injectors \ {inj} : values'[j] = values[j]
    /\ DOMAIN values'[inj] \subseteq DOMAIN values[inj] \cup {typ}
    /\ \A t \in Types, k \in Keys :
          (t # typ \/ k # key) => Direct(values'[inj], t, k) = Direct(values[inj], t, k)
    /\ \A j \in Injectors :
          inj \notin Chain(parent, j, {})
          => \A t \in GetTypes, k \in Keys : GetVals(j, t, k)' = GetVals(j, t, k)
    /\ \A c \in Injectors :
          (parent[c] = inj /\ ~LocalHit(c, typ, key)
             /\ IsValid(Direct(values'[inj], typ, key)))
          => GetVals(c, typ, key)' = {Direct(values'[inj], typ, key)}

\* C16: a Register, RegisterAs or Set on an injector R for (T, k) changes
\* the binding of R for (T, k) and nothing else: the other bindings of R,
\* the parent links and the stores of the other injectors stay, a Get on an
\* injector that does not reach R (its parent, a sibling) returns what it
\* returned before, and a child of R that finds nothing for (T, k) in its
\* own store returns the new value.
C16_WritesAreLocal ==
    [][\A inj \in Injectors, typ \in Types, key \in Keys :
          ( /\ last'.op \in {"Register", "RegisterAs", "Set"}
            /\ last'.err = "nil"
            /\ last'.inj = inj /\ last'.typ = typ /\ last'.key = key )
          => (WriteIsLocal(inj, typ, key)
              /\ Direct(values'[inj], typ, key) = last'.val)]_vars

\* a write on an injector that has a parent and a child and holds another
\* binding: the child, with nothing of its own, returns the new value
C16_Witness ==
    /\ last.op \in {"Register", "RegisterAs", "Set"}
    /\ IsValid(last.val)
    /\ parent[last.inj] # Nil
    /\ \E t \in Types, k \in Keys :
          /\ <<t, k>> # <<last.typ, last.key>>
          /\ IsValid(Direct(values[last.inj], t, k))
    /\ \E c \in Injectors :
          /\ parent[c] = last.inj
          /\ ~LocalHit(c, last.typ, last.key)
          /\ GetVals(c, last.typ, last.key) = {last.val}

(***************************************************************************)
(* Gets that follow one another.                                           *)
(***************************************************************************)

\* Get(t, key) on inj has one possible result by the shape of the request:
\* t is concrete, or inj holds a binding for (t, key), or no injector up
\* the parent links holds more than one candidate
Determined(inj, t, key) ==
    \/ Kind(t) # "interface"
    \/ IsValid(Direct(values[inj], t, key))
    \/ \A j \in Chain(parent, inj, {}) : Cardinality(Candidates(j, t, key)) <= 1

\* C17: a Get changes the possible results of no later Get, of any type
\* and key on any injector; and a Get(T, k) that follows a Get(T, k) on the
\* same injector, with no write between them, returns the same value when T
\* is concrete, or bound in the injector, or has one candidate at most at
\* each level of the chain.
C17_GetIdempotence ==
    [][last'.op = "Get"
          => /\ \A j \in Injectors, t \in Types, k \in Keys :
                   GetVals(j, t, k)' = GetVals(j, t, k)
             /\ \A inj \in Injectors, t \in Types, k \in Keys :
                   ( /\ last.op = "Get"
                     /\ last.inj = inj /\ last.typ = t /\ last.key = k
                     /\ last'.inj = inj /\ last'.typ = t /\ last'.key = k
                     /\ Determined(inj, t, k) )
                   => last'.ret = last.ret]_vars

\* a Get for the interface type has left an empty entry for it in the store
\* of an injector that has a parent, and has returned one of the two values
\* it may return
C17_Witness ==
    /\ last.op = "Get" /\ last.typ = "Speaker"
    /\ IsValid(last.ret)
    /\ parent[last.inj] # Nil
    /\ "Speaker" \in DOMAIN values[last.inj]
    /\ Cardinality(GetVals(last.inj, "Speaker", "")) = 2
    /\ ncalls = 2

(***************************************************************************)
(* Termination.                                                            *)
(***************************************************************************)

\* the Get under way was called on an injector whose parent links run into
\* a cycle
OnCycle == walk.pc # "idle" /\ Cyclic(parent, walk.stack[1], {})

\* the Get under way was called on an injector whose parent links end
OffCycle == walk.pc # "idle" /\ ~Cyclic(parent, walk.stack[1], {})

\* no injector the Get under way can come to resolves its (type, key)
Unresolvable ==
    \A j \in Chain(parent, walk.stack[1], {}) : ~LocalHit(j, walk.typ, walk.key)

\* no injector has two frames on the stack
VisitsOnce ==
    \A i, j \in 1..Len(walk.stack) : walk.stack[i] = walk.stack[j] => i = j

DescriptorLaw(c, vs, ws) ==
    /\ (c.op \in {"InterfaceOf", "RegisterAs"} /\ Kind(c.desc.base) # "interface")
          => (c.err = "panic" /\ ws = vs)
    /\ (c.op = "InterfaceOf" /\ Kind(c.desc.base) = "interface")
          => (c.err = "nil" /\ c.typ = c.desc.base)
    /\ (c.op = "RegisterAs" /\ Kind(c.desc.base) = "interface")
          => (c.err = "nil" /\ Direct(ws[c.inj], c.desc.base, c.key) = c.val)

\* C12: InterfaceOf of a descriptor whose type, all pointer layers off, is
\* no interface panics and returns nothing; RegisterAs with such a
\* descriptor panics and leaves the store as it was, with no binding and no
\* type entry added; a descriptor of any number of pointer layers over an
\* interface yields that interface type.
C12_InterfaceOfMisuse == [][DescriptorLaw(last', values, values')]_vars

\* a RegisterAs with a pointer to a pointer to a struct has panicked on an
\* injector that holds a value an earlier RegisterAs stored under the
\* interface type
C12_Witness ==
    /\ last.op = "RegisterAs" /\ last.err = "panic"
    /\ last.desc.ptr = 2
    /\ \E key \in Keys : IsValid(Direct(values["i1"], "Speaker", key))


(***************************************************************************)
(* Locking.                                                                *)
(***************************************************************************)

\* every call in progress is made under the lock of its injector
OwnLocksHeld ==
    \A th \in Threads : thr[th].pc # "idle" => thr[th].call.inj \in thr[th].held

\* the threads make every call under the locks of its injector and of all
\* the injectors its parent links lead to
ChainLocksHeld ==
    \A th \in Threads :
        /\ thr[th].chain
        /\ thr[th].pc # "idle" => Chain(parent, thr[th].call.inj, {}) \subseteq thr[th].held

\* C8 as stated: with every Register/RegisterAs/Set/Get call made under the
\* lock of the injector it is called on, no store is accessed by two threads
\* at overlapping times with one of the accesses a write.
C8_Original == OwnLocksHeld => ~Race

\* C8 as amended: with every call made under the lock of the injector it
\* is called on and the locks of all the injectors on its parent chain, no
\* store is accessed by two threads at overlapping times with one of the
\* accesses a write (and the runtime never ends the process for it).
C8_ChainLocking == ChainLocksHeld => (~Race /\ ~Fatal)

\* a Get has moved on to the store of its parent, under the locks of its
\* chain, while the other thread is in the store of another injector
C8_Witness ==
    \E th \in Threads, ot \in Threads :
        /\ th # ot
        /\ ChainLocksHeld
        /\ thr[th].pc = "access" /\ thr[ot].pc = "access"
        /\ thr[th].call.op = "Get"
        /\ thr[th].cur # thr[th].call.inj
        /\ thr[ot].mode = "w"

====
